---- MODULE Spec2Model ----
(***************************************************************************)
(* Model of include/at/types.hpp: the domain value types of the trading    *)
(* client and their to_json / from_json mappings onto nlohmann::json       *)
(* documents.                                                              *)
(*                                                                         *)
(* Strings are sequences of one-character strings.  A JSON object is a     *)
(* function whose DOMAIN is the set of keys present.  A JSON number is a   *)
(* record [kind, hi, lo, half] denoting hi * 2^53 + lo + half / 2, so that *)
(* the int64 -> double conversion of get<double>() can be modelled above   *)
(* 2^53, where it is no longer exact.                                      *)
(***************************************************************************)
EXTENDS Integers, Sequences, FiniteSets, TLC

\* pc:  "call" before the function runs, "done" after it returned or threw,
\*      "redone" after a second function ran on the first one's result
\* fn:  the function called
\* arg: its input (a document for from_json, a domain value for to_json)
\* res: its outcome, [status |-> "ok" or the failure, ...]
\* prev: the input of the first call, once a second call has consumed the
\*      first one's result (pc = "redone")
VARIABLES pc, fn, arg, res, prev

vars == <<pc, fn, arg, res, prev>>

----------------------------------------------------------------------------
(* Bounds *)

MaxLen == 2       \* longest base / quote string handed to a constructor
MaxStrLen == 5    \* longest "pair" string in an ExchangeInfo / MarketInfo
MaxLo == 3        \* largest offset lo of a number hi * 2^53 + lo
MaxHashLen == 3   \* longest hash_t string

----------------------------------------------------------------------------
(* Strings *)

Chars == {"a", "B", "_"}

HashChars == {"a", "1", "\""}

StrsOver(alphabet, n) == UNION {[1..k -> alphabet] : k \in 0..n}

Strs(n) == StrsOver(Chars, n)

\* ::toupper on one character
ToUpperChar(c) ==
    CASE c = "a" -> "A"
      [] c = "b" -> "B"
      [] OTHER -> c

\* at::toupper: transform(begin, end, begin, ::toupper)
toupper(str) == [i \in 1..Len(str) |-> ToUpperChar(str[i])]

\* std::string::substr(pos, count), 0-based pos
substr(s, pos, count) == SubSeq(s, pos + 1, pos + count)

substr_from_inclusive(s, pos) == SubSeq(s, pos, Len(s))

\* std::string::substr(pos), 0-based pos
substr_from(s, pos) == SubSeq(s, pos + 1, Len(s))

npos == -1

find_first_of(s, c) ==
    IF \E i \in 1..Len(s) : s[i] = c
    THEN (CHOOSE i \in 1..Len(s) : s[i] = c /\ \A k \in 1..(i - 1) : s[k] # c) - 1
    ELSE npos

find_last_of_or_zero(s, c) ==
    IF \E i \in 1..Len(s) : s[i] = c
    THEN (CHOOSE i \in 1..Len(s) : s[i] = c /\ \A k \in (i + 1)..Len(s) : s[k] # c) - 1
    ELSE 0

\* std::string::find_last_of("_"): 0-based index of the last occurrence
find_last_of(s, c) ==
    IF \E i \in 1..Len(s) : s[i] = c
    THEN (CHOOSE i \in 1..Len(s) : s[i] = c /\ \A k \in (i + 1)..Len(s) : s[k] # c) - 1
    ELSE npos

----------------------------------------------------------------------------
(* numeric_string *)

FieldKinds == {"string", "null", "number", "boolean", "object", "array"}

\* A document field as numeric_string sees it: its kind, and its text when
\* it is a string.
Fields == {[kind |-> "string", s |-> s] : s \in Strs(MaxLen)}
          \cup {[kind |-> k, s |-> <<>>] : k \in FieldKinds \ {"string"}}

ZeroString == <<"0", ".", "0">>

numeric_string_nonnull(field) ==
    IF field.kind = "string"
    THEN [status |-> "ok", s |-> field.s]
    ELSE [status |-> "ok", s |-> ZeroString]

numeric_string(field) ==
    IF field.kind = "string"
    THEN [status |-> "ok", s |-> field.s]
    ELSE IF field.kind = "null"
    THEN [status |-> "ok", s |-> ZeroString]
    ELSE [status |-> "runtime_error", s |-> <<>>]

----------------------------------------------------------------------------
(* currency_pair_t *)

\* currency_pair_t(): both strings empty
DefaultPair == [first |-> <<>>, second |-> <<>>]

\* currency_pair_t(first, second): both upper-cased
currency_pair_t(first, second) ==
    [first |-> toupper(first), second |-> toupper(second)]

str_no_delimiter(p) == p.first \o p.second

\* currency_pair_t::str()
str(p) == p.first \o <<"_">> \o p.second

----------------------------------------------------------------------------
(* Numbers.  [hi, lo, half] denotes hi * 2^53 + lo + half / 2. *)

\* The values a double holds exactly: below 2^53 every integer and half,
\* from 2^53 to 2^54 the even integers only.
Doubles == {d \in [hi : {0, 1}, lo : 0..MaxLo, half : {0, 1}] :
                d.hi = 1 => (d.half = 0 /\ d.lo % 2 = 0)}

FewDoubles == {[hi |-> 0, lo |-> 1, half |-> 0], [hi |-> 0, lo |-> 0, half |-> 1]}

ZeroDouble == [hi |-> 0, lo |-> 0, half |-> 0]

\* JSON values found where a number is expected: number_integer (any
\* int64), number_float (a double), or null as a value of another kind.
JsonInts == {[kind |-> "int", hi |-> h, lo |-> l, half |-> 0] :
                h \in {0, 1}, l \in 0..MaxLo}

JsonFloats == {[kind |-> "float", hi |-> d.hi, lo |-> d.lo, half |-> d.half] :
                  d \in Doubles}

JsonNull == [kind |-> "null", hi |-> 0, lo |-> 0, half |-> 0]

JsonNumbers == JsonInts \cup JsonFloats

FewJsonNumbers == {[kind |-> "int", hi |-> 0, lo |-> 1, half |-> 0], JsonNull}

\* double -> number_float (json(double))
json_double(d) == [kind |-> "float", hi |-> d.hi, lo |-> d.lo, half |-> d.half]

\* static_cast<double>(int64): round to nearest, ties to even mantissa.
\* In [2^53, 2^54) doubles are 2 apart and 2^53 + lo has an even mantissa
\* iff lo is a multiple of 4.
RoundLo(lo) ==
    IF lo % 2 = 0 THEN lo
    ELSE IF (lo - 1) % 4 = 0 THEN lo - 1 ELSE lo + 1

\* basic_json::get<double>()
get_double(v) ==
    IF v.kind = "float"
    THEN [status |-> "ok", field |-> "", val |-> [hi |-> v.hi, lo |-> v.lo, half |-> v.half]]
    ELSE IF v.kind = "int"
    THEN [status |-> "ok", field |-> "",
          val |-> [hi |-> v.hi, lo |-> IF v.hi = 1 THEN RoundLo(v.lo) ELSE v.lo, half |-> 0]]
    ELSE [status |-> "type_error", field |-> "", val |-> ZeroDouble]

\* JSON values found where a string is expected
JsonStrings(n) == {[kind |-> "string", s |-> s] : s \in Strs(n)}

JsonNullStr == [kind |-> "null", s |-> <<>>]

json_string(s) == [kind |-> "string", s |-> s]

\* basic_json::get<std::string>()
get_string(v) ==
    IF v.kind = "string"
    THEN [status |-> "ok", field |-> "", val |-> v.s]
    ELSE [status |-> "type_error", field |-> "", val |-> <<>>]

----------------------------------------------------------------------------
(* Objects: a function from the keys present to their values. *)

Restrict(j, has) == [k \in has |-> j[k]]

\* What a throwing call leaves the caller with: the failure and, for
\* out_of_range, the key that basic_json::at(key) did not find.
Throw(status, field, val) == [status |-> status, field |-> field, val |-> val]

Return(val) == [status |-> "ok", field |-> "", val |-> val]

\* j.at(key).get<double>()
at_double(j, key) ==
    IF key \notin DOMAIN j
    THEN Throw("out_of_range", key, ZeroDouble)
    ELSE get_double(j[key])

\* j.at(key).get<std::string>()
at_string(j, key) ==
    IF key \notin DOMAIN j
    THEN Throw("out_of_range", key, <<>>)
    ELSE get_string(j[key])

----------------------------------------------------------------------------
(* deposit_limit_t *)

DefaultLimit == [min |-> ZeroDouble, max |-> ZeroDouble]

to_json_deposit_limit(d) ==
    Return([min |-> json_double(d.min), max |-> json_double(d.max)])

from_json_deposit_limit(j, d) ==
    LET min == at_double(j, "min")
        max == at_double(j, "max")
    IN  IF min.status # "ok" THEN Throw(min.status, min.field, d)
        ELSE IF max.status # "ok" THEN Throw(max.status, max.field, d)
        ELSE Return([min |-> min.val, max |-> max.val])

\* j.at("limit").get<deposit_limit_t>()
at_deposit_limit(j) ==
    IF "limit" \notin DOMAIN j
    THEN Throw("out_of_range", "limit", DefaultLimit)
    ELSE from_json_deposit_limit(j.limit, DefaultLimit)

LimitKeys == {"min", "max"}

LimitDocs(nums) ==
    {Restrict(l, has) : l \in [min : nums, max : nums], has \in SUBSET LimitKeys}

LimitValues(doubles) == [min : doubles, max : doubles]

----------------------------------------------------------------------------
(* deposit_info_t *)

FewStrings == {<<"a">>, <<"B", "_">>}

DefaultDepositInfo ==
    [limit |-> DefaultLimit, fee |-> ZeroDouble, currency |-> <<>>, method |-> <<>>]

to_json_deposit_info(d) ==
    Return([limit |-> to_json_deposit_limit(d.limit).val,
            fee |-> json_double(d.fee),
            currency |-> json_string(d.currency),
            method |-> json_string(d.method)])

\* const operator[] with a key the object lacks is undefined: the library
\* asserts the key is there (an abort when assertions are compiled in) and
\* otherwise dereferences end().  What the read then yields is any of: a
\* crash, a value that is no number (get<double>() throws type_error), or
\* some number.  No outcome throws out_of_range.
UndefinedRead ==
    {Throw("abort", "", ZeroDouble), Throw("crash", "", ZeroDouble),
     Throw("type_error", "", ZeroDouble)}
    \cup {Return(g) : g \in Doubles}

\* j["limit"][key].get<double>(): the set of possible outcomes
index_limit_double(j, key) ==
    IF "limit" \in DOMAIN j /\ key \in DOMAIN j.limit
    THEN {get_double(j.limit[key])}
    ELSE UndefinedRead

\* from_json(j, d) after both limit reads succeeded
deposit_info_rest(j, d, max, min) ==
    LET fee == at_double(j, "fee")
        currency == at_string(j, "currency")
        method == at_string(j, "method")
    IN  IF fee.status # "ok" THEN Throw(fee.status, fee.field, d)
        ELSE IF currency.status # "ok" THEN Throw(currency.status, currency.field, d)
        ELSE IF method.status # "ok" THEN Throw(method.status, method.field, d)
        ELSE Return([limit |-> [min |-> min, max |-> max], fee |-> fee.val,
                     currency |-> currency.val, method |-> method.val])

from_json_deposit_info_swapped(j, d) ==
    UNION {IF max.status # "ok" THEN {Throw(max.status, max.field, d)}
           ELSE UNION {IF min.status # "ok" THEN {Throw(min.status, min.field, d)}
                       ELSE {deposit_info_rest(j, d, min.val, max.val)}
                       : min \in index_limit_double(j, "min")}
           : max \in index_limit_double(j, "max")}

\* from_json(const json&, deposit_info_t&): the set of possible outcomes
from_json_deposit_info(j, d) ==
    UNION {IF max.status # "ok" THEN {Throw(max.status, max.field, d)}
           ELSE UNION {IF min.status # "ok" THEN {Throw(min.status, min.field, d)}
                       ELSE {deposit_info_rest(j, d, max.val, min.val)}
                       : min \in index_limit_double(j, "min")}
           : max \in index_limit_double(j, "max")}

DepositInfoKeys == {"limit", "fee", "currency", "method"}

\* Documents of the shape {"limit": {"min", "max"}, "fee", "currency",
\* "method"} with every field present and of its expected kind
WellFormedDepositInfoDocs ==
    [limit : [min : JsonNumbers, max : JsonNumbers], fee : JsonNumbers,
     currency : {json_string(s) : s \in FewStrings},
     method : {json_string(s) : s \in FewStrings}]

\* Documents with any subset of the keys, and null among the values
PartialDepositInfoDocs ==
    {Restrict(j, has) :
        j \in [limit : LimitDocs(FewJsonNumbers), fee : FewJsonNumbers,
               currency : {json_string(<<"a">>), JsonNullStr},
               method : {json_string(<<"a">>), JsonNullStr}],
        has \in SUBSET DepositInfoKeys}

DepositInfoValues ==
    [limit : LimitValues(FewDoubles), fee : Doubles,
     currency : FewStrings, method : FewStrings]

----------------------------------------------------------------------------
(* exchange_info_t *)

DefaultExchangeInfo ==
    [pair |-> DefaultPair, limit |-> DefaultLimit, rate |-> ZeroDouble,
     miner_fee |-> ZeroDouble]

to_json_exchange_info(m) ==
    Return([pair |-> json_string(str(m.pair)),
            limit |-> to_json_deposit_limit(m.limit).val,
            rate |-> json_double(m.rate),
            miner_fee |-> json_double(m.miner_fee)])

from_json_exchange_info(j, m) ==
    LET limit == at_deposit_limit(j)
        rate == at_double(j, "rate")
        miner_fee == at_double(j, "miner_fee")
        pair_str == at_string(j, "pair")
        delimiter_it == find_last_of(pair_str.val, "_")
    IN  IF limit.status # "ok" THEN Throw(limit.status, limit.field, m)
        ELSE IF rate.status # "ok" THEN Throw(rate.status, rate.field, m)
        ELSE IF miner_fee.status # "ok" THEN Throw(miner_fee.status, miner_fee.field, m)
        ELSE IF pair_str.status # "ok" THEN Throw(pair_str.status, pair_str.field, m)
        ELSE Return([pair |-> IF delimiter_it # npos
                              THEN currency_pair_t(substr(pair_str.val, 0, delimiter_it),
                                                   substr_from(pair_str.val, delimiter_it + 1))
                              ELSE m.pair,
                     limit |-> limit.val, rate |-> rate.val,
                     miner_fee |-> miner_fee.val])

ExchangeInfoKeys == {"pair", "limit", "rate", "miner_fee"}

\* Every pair string, all keys present
FullExchangeInfoDocs ==
    [pair : JsonStrings(MaxStrLen), limit : [min : FewJsonNumbers, max : FewJsonNumbers],
     rate : FewJsonNumbers, miner_fee : FewJsonNumbers]

\* Any subset of the keys
PartialExchangeInfoDocs ==
    {Restrict(j, has) :
        j \in [pair : JsonStrings(1) \cup {JsonNullStr}, limit : LimitDocs(FewJsonNumbers),
               rate : FewJsonNumbers, miner_fee : FewJsonNumbers],
        has \in SUBSET ExchangeInfoKeys}

PairValues == [first : Strs(MaxLen), second : Strs(MaxLen)]

ExchangeInfoValues ==
    [pair : PairValues, limit : LimitValues(FewDoubles), rate : FewDoubles,
     miner_fee : FewDoubles]

----------------------------------------------------------------------------
(* market_info_t *)

DefaultMarketInfo ==
    [pair |-> DefaultPair, limit |-> DefaultLimit, maker_fee |-> ZeroDouble,
     taker_fee |-> ZeroDouble]

to_json_market_info(m) ==
    Return([pair |-> json_string(str(m.pair)),
            limit |-> to_json_deposit_limit(m.limit).val,
            taker_fee |-> json_double(m.taker_fee),
            maker_fee |-> json_double(m.maker_fee)])

from_json_market_info(j, m) ==
    LET limit == at_deposit_limit(j)
        maker_fee == at_double(j, "maker_fee")
        taker_fee == at_double(j, "taker_fee")
        pair_str == at_string(j, "pair")
        delimiter_it == find_last_of(pair_str.val, "_")
    IN  IF limit.status # "ok" THEN Throw(limit.status, limit.field, m)
        ELSE IF maker_fee.status # "ok" THEN Throw(maker_fee.status, maker_fee.field, m)
        ELSE IF taker_fee.status # "ok" THEN Throw(taker_fee.status, taker_fee.field, m)
        ELSE IF pair_str.status # "ok" THEN Throw(pair_str.status, pair_str.field, m)
        ELSE Return([pair |-> IF delimiter_it # npos
                              THEN currency_pair_t(substr(pair_str.val, 0, delimiter_it),
                                                   substr_from(pair_str.val, delimiter_it + 1))
                              ELSE m.pair,
                     limit |-> limit.val, maker_fee |-> maker_fee.val,
                     taker_fee |-> taker_fee.val])

MarketInfoKeys == {"pair", "limit", "maker_fee", "taker_fee"}

FullMarketInfoDocs ==
    [pair : JsonStrings(MaxStrLen), limit : [min : FewJsonNumbers, max : FewJsonNumbers],
     maker_fee : FewJsonNumbers, taker_fee : FewJsonNumbers]

PartialMarketInfoDocs ==
    {Restrict(j, has) :
        j \in [pair : JsonStrings(1) \cup {JsonNullStr}, limit : LimitDocs(FewJsonNumbers),
               maker_fee : FewJsonNumbers, taker_fee : FewJsonNumbers],
        has \in SUBSET MarketInfoKeys}

MarketInfoValues ==
    [pair : PairValues, limit : LimitValues(FewDoubles), maker_fee : FewDoubles,
     taker_fee : FewDoubles]

----------------------------------------------------------------------------
(* currency_pair_t as a two-element array *)

\* Arrays of up to two elements, each a string or null
PairArrayDocs ==
    UNION {[1..n -> JsonStrings(MaxLen) \cup {JsonNullStr}] : n \in 0..2}

to_json_currency_pair(c) ==
    Return(<<json_string(c.first), json_string(c.second)>>)

\* j.at(index).get<std::string>(), 0-based index
at_index_string(j, index, name) ==
    IF index + 1 > Len(j)
    THEN Throw("out_of_range", name, <<>>)
    ELSE get_string(j[index + 1])

\* from_json(const json&, currency_pair_t&): assigns the public members
\* directly, without passing through the constructor
from_json_currency_pair(j, c) ==
    LET first == at_index_string(j, 0, "0")
        second == at_index_string(j, 1, "1")
    IN  IF first.status # "ok" THEN Throw(first.status, first.field, c)
        ELSE IF second.status # "ok" THEN Throw(second.status, second.field, c)
        ELSE Return([first |-> first.val, second |-> second.val])

----------------------------------------------------------------------------
(* hash_t *)

Quote == "\""

\* json::parse accepts a string iff it is a JSON text.  Over HashChars the
\* JSON texts are the numbers 1, 11, 111, ... and the quoted strings.
IsJsonNumberText(a) == Len(a) > 0 /\ \A i \in 1..Len(a) : a[i] = "1"

IsJsonStringText(a) ==
    /\ Len(a) >= 2
    /\ a[1] = Quote
    /\ a[Len(a)] = Quote
    /\ \A i \in 2..(Len(a) - 1) : a[i] # Quote

\* to_json(json&, const hash_t&): j = json::parse(a)
to_json_hash(a) ==
    IF IsJsonNumberText(a)
    THEN Return([kind |-> "number", text |-> a])
    ELSE IF IsJsonStringText(a)
    THEN Return([kind |-> "string", text |-> SubSeq(a, 2, Len(a) - 1)])
    ELSE Throw("parse_error", "", [kind |-> "null", text |-> <<>>])

HashValues == StrsOver(HashChars, MaxHashLen)

----------------------------------------------------------------------------
(* coin_t *)

to_json_coin(c) ==
    Return([name |-> json_string(c.name), symbol |-> json_string(c.symbol),
            status |-> json_string(c.status)])

CoinValues == [name : FewStrings, symbol : FewStrings, status : FewStrings]

----------------------------------------------------------------------------
(* The state machine: one call of one function on one input, and the calls *)
(* that feed a result back through the opposite mapping.  A from_json call *)
(* is made as basic_json::get<T>() makes it, on a default-constructed T.   *)

NoResult == [status |-> "none"]

Call(f, inputs) ==
    /\ pc = "call"
    /\ fn = f
    /\ arg \in inputs
    /\ res = NoResult
    /\ prev = <<>>

Init ==
    \/ Call("currency_pair_t", PairValues)
    \/ Call("numeric_string", Fields)
    \/ Call("to_json_currency_pair", PairValues)
    \/ Call("from_json_currency_pair", PairArrayDocs)
    \/ Call("to_json_hash", HashValues)
    \/ Call("to_json_coin", CoinValues)
    \/ Call("to_json_deposit_limit", LimitValues(Doubles))
    \/ Call("from_json_deposit_limit", LimitDocs(JsonNumbers \cup {JsonNull}))
    \/ Call("to_json_deposit_info", DepositInfoValues)
    \/ Call("from_json_deposit_info", WellFormedDepositInfoDocs)
    \/ Call("from_json_deposit_info", PartialDepositInfoDocs)
    \/ Call("to_json_exchange_info", ExchangeInfoValues)
    \/ Call("from_json_exchange_info", FullExchangeInfoDocs)
    \/ Call("from_json_exchange_info", PartialExchangeInfoDocs)
    \/ Call("to_json_market_info", MarketInfoValues)
    \/ Call("from_json_market_info", FullMarketInfoDocs)
    \/ Call("from_json_market_info", PartialMarketInfoDocs)

\* currency_pair_t(first, second)
Construct ==
    /\ pc = "call"
    /\ fn = "currency_pair_t"
    /\ pc' = "done"
    /\ res' = Return(currency_pair_t(arg.first, arg.second))
    /\ UNCHANGED <<fn, arg, prev>>

NumericString ==
    /\ pc = "call"
    /\ fn = "numeric_string"
    /\ pc' = "done"
    /\ res' = numeric_string(arg)
    /\ UNCHANGED <<fn, arg, prev>>

ToJsonCurrencyPair ==
    /\ pc = "call"
    /\ fn = "to_json_currency_pair"
    /\ pc' = "done"
    /\ res' = to_json_currency_pair(arg)
    /\ UNCHANGED <<fn, arg, prev>>

\* j.get<currency_pair_t>()
FromJsonCurrencyPair ==
    /\ pc = "call"
    /\ fn = "from_json_currency_pair"
    /\ pc' = "done"
    /\ res' = from_json_currency_pair(arg, DefaultPair)
    /\ UNCHANGED <<fn, arg, prev>>

ToJsonHash ==
    /\ pc = "call"
    /\ fn = "to_json_hash"
    /\ pc' = "done"
    /\ res' = to_json_hash(arg)
    /\ UNCHANGED <<fn, arg, prev>>

ToJsonCoin ==
    /\ pc = "call"
    /\ fn = "to_json_coin"
    /\ pc' = "done"
    /\ res' = to_json_coin(arg)
    /\ UNCHANGED <<fn, arg, prev>>

ToJsonDepositLimit ==
    /\ pc = "call"
    /\ fn = "to_json_deposit_limit"
    /\ pc' = "done"
    /\ res' = to_json_deposit_limit(arg)
    /\ UNCHANGED <<fn, arg, prev>>

\* j.get<deposit_limit_t>()
FromJsonDepositLimit ==
    /\ pc = "call"
    /\ fn = "from_json_deposit_limit"
    /\ pc' = "done"
    /\ res' = from_json_deposit_limit(arg, DefaultLimit)
    /\ UNCHANGED <<fn, arg, prev>>

ToJsonDepositInfo ==
    /\ pc = "call"
    /\ fn = "to_json_deposit_info"
    /\ pc' = "done"
    /\ res' = to_json_deposit_info(arg)
    /\ UNCHANGED <<fn, arg, prev>>

\* j.get<deposit_info_t>()
FromJsonDepositInfo ==
    /\ pc = "call"
    /\ fn = "from_json_deposit_info"
    /\ pc' = "done"
    /\ res' \in from_json_deposit_info(arg, DefaultDepositInfo)
    /\ UNCHANGED <<fn, arg, prev>>

ToJsonExchangeInfo ==
    /\ pc = "call"
    /\ fn = "to_json_exchange_info"
    /\ pc' = "done"
    /\ res' = to_json_exchange_info(arg)
    /\ UNCHANGED <<fn, arg, prev>>

\* j.get<exchange_info_t>()
FromJsonExchangeInfo ==
    /\ pc = "call"
    /\ fn = "from_json_exchange_info"
    /\ pc' = "done"
    /\ res' = from_json_exchange_info(arg, DefaultExchangeInfo)
    /\ UNCHANGED <<fn, arg, prev>>

ToJsonMarketInfo ==
    /\ pc = "call"
    /\ fn = "to_json_market_info"
    /\ pc' = "done"
    /\ res' = to_json_market_info(arg)
    /\ UNCHANGED <<fn, arg, prev>>

\* j.get<market_info_t>()
FromJsonMarketInfo ==
    /\ pc = "call"
    /\ fn = "from_json_market_info"
    /\ pc' = "done"
    /\ res' = from_json_market_info(arg, DefaultMarketInfo)
    /\ UNCHANGED <<fn, arg, prev>>

\* json(j.get<deposit_info_t>()): encode what was decoded
ReencodeDepositInfo ==
    /\ pc = "done"
    /\ fn = "from_json_deposit_info"
    /\ res.status = "ok"
    /\ pc' = "redone"
    /\ fn' = "to_json_deposit_info"
    /\ prev' = arg
    /\ arg' = res.val
    /\ res' = to_json_deposit_info(res.val)

\* json(j.get<exchange_info_t>())
ReencodeExchangeInfo ==
    /\ pc = "done"
    /\ fn = "from_json_exchange_info"
    /\ res.status = "ok"
    /\ pc' = "redone"
    /\ fn' = "to_json_exchange_info"
    /\ prev' = arg
    /\ arg' = res.val
    /\ res' = to_json_exchange_info(res.val)

\* json(j.get<market_info_t>())
ReencodeMarketInfo ==
    /\ pc = "done"
    /\ fn = "from_json_market_info"
    /\ res.status = "ok"
    /\ pc' = "redone"
    /\ fn' = "to_json_market_info"
    /\ prev' = arg
    /\ arg' = res.val
    /\ res' = to_json_market_info(res.val)

\* The document to_json writes for an exchange_info_t holding pair p
ExchangeInfoDocOf(p) ==
    to_json_exchange_info([DefaultExchangeInfo EXCEPT !.pair = p]).val

MarketInfoDocOf(p) ==
    to_json_market_info([DefaultMarketInfo EXCEPT !.pair = p]).val

\* Decode the document that holds the display string of a constructed pair
DecodeDisplayExchangeInfo ==
    /\ pc = "done"
    /\ fn = "currency_pair_t"
    /\ res.status = "ok"
    /\ pc' = "redone"
    /\ fn' = "from_json_exchange_info"
    /\ prev' = arg
    /\ arg' = ExchangeInfoDocOf(res.val)
    /\ res' = from_json_exchange_info(ExchangeInfoDocOf(res.val), DefaultExchangeInfo)

\* The same through market_info_t
DecodeDisplayMarketInfo ==
    /\ pc = "done"
    /\ fn = "currency_pair_t"
    /\ res.status = "ok"
    /\ pc' = "redone"
    /\ fn' = "from_json_market_info"
    /\ prev' = arg
    /\ arg' = MarketInfoDocOf(res.val)
    /\ res' = from_json_market_info(MarketInfoDocOf(res.val), DefaultMarketInfo)

Next ==
    \/ Construct
    \/ NumericString
    \/ ToJsonCurrencyPair
    \/ FromJsonCurrencyPair
    \/ ToJsonHash
    \/ ToJsonCoin
    \/ ToJsonDepositLimit
    \/ FromJsonDepositLimit
    \/ ToJsonDepositInfo
    \/ FromJsonDepositInfo
    \/ ToJsonExchangeInfo
    \/ FromJsonExchangeInfo
    \/ ToJsonMarketInfo
    \/ FromJsonMarketInfo
    \/ ReencodeDepositInfo
    \/ ReencodeExchangeInfo
    \/ ReencodeMarketInfo
    \/ DecodeDisplayExchangeInfo
    \/ DecodeDisplayMarketInfo

Spec == Init /\ [][Next]_vars

----------------------------------------------------------------------------
(* Properties *)

Done == pc \in {"done", "redone"}

PairDecoders == {"from_json_exchange_info", "from_json_market_info"}

Encoders ==
    {"to_json_currency_pair", "to_json_hash", "to_json_coin", "to_json_deposit_limit",
     "to_json_deposit_info", "to_json_exchange_info", "to_json_market_info"}

HasDelimiter(s) == \E i \in 1..Len(s) : s[i] = "_"

\* The call decoded a document whose "pair" is the string it reads
DecodedPairString ==
    /\ Done
    /\ fn \in PairDecoders
    /\ "pair" \in DOMAIN arg
    /\ arg.pair.kind = "string"

\* C1: decoding a two-element array [x, y] of strings yields the pair
\* (uppercase(x), uppercase(y)).
C1_ArrayDecodeUppercases ==
    (pc = "done" /\ fn = "from_json_currency_pair" /\ res.status = "ok")
        => res.val = [first |-> toupper(arg[1].s), second |-> toupper(arg[2].s)]

----------------------------------------------------------------------------

\* The required fields a document lacks, "min" and "max" being looked for
\* inside "limit" when the decoder has a "limit"
LimitMissing(j) == IF "limit" \in DOMAIN j THEN LimitKeys \ DOMAIN j.limit ELSE {}

Missing(keys, j) == (keys \ DOMAIN j) \cup LimitMissing(j)

RequiredKeys ==
    [from_json_deposit_limit |-> LimitKeys,
     from_json_deposit_info |-> DepositInfoKeys,
     from_json_exchange_info |-> ExchangeInfoKeys,
     from_json_market_info |-> MarketInfoKeys]

MissingOfCall ==
    IF fn = "from_json_deposit_limit"
    THEN LimitKeys \ DOMAIN arg
    ELSE Missing(RequiredKeys[fn], arg)

\* No field that is present is null
NoNullIn(j) == \A k \in DOMAIN j : k # "limit" => j[k].kind # "null"

NoNull(j) ==
    /\ NoNullIn(j)
    /\ "limit" \in DOMAIN j => NoNullIn(j.limit)

\* A composite decoder ran on a document that lacks exactly one required
\* field and is otherwise well-typed
LacksOneField ==
    /\ pc = "done"
    /\ fn \in DOMAIN RequiredKeys
    /\ Cardinality(MissingOfCall) = 1
    /\ NoNull(arg)

\* C2: a composite decoder given a document that lacks a required field
\* fails with out_of_range (MissingField) naming exactly that field.
C2_MissingFieldNamed ==
    LacksOneField => (res.status = "out_of_range" /\ MissingOfCall = {res.field})

\* The same, leaving out the two const operator[] reads of deposit_info_t
C2_MissingFieldNamedByAt ==
    (LacksOneField
     /\ ~(fn = "from_json_deposit_info" /\ MissingOfCall \subseteq {"limit", "min", "max"}))
        => (res.status = "out_of_range" /\ MissingOfCall = {res.field})

----------------------------------------------------------------------------

Upper(p) == toupper(p.first) \o <<"_">> \o toupper(p.second)

\* C3: the display string of a pair is uppercase(base) + "_" +
\* uppercase(quote) whether the pair came from the constructor, from the
\* two-element array or from the delimited string.
C3_DisplayUppercase ==
    /\ (pc = "done" /\ fn = "currency_pair_t")
          => str(res.val) = Upper(arg)
    /\ (pc = "done" /\ fn = "from_json_currency_pair" /\ res.status = "ok")
          => str(res.val) = Upper([first |-> arg[1].s, second |-> arg[2].s])
    /\ (DecodedPairString /\ res.status = "ok")
          => str(res.val.pair) = Upper(res.val.pair)

\* The same without the array path
C3_DisplayUppercaseOtherPaths ==
    /\ (pc = "done" /\ fn = "currency_pair_t")
          => str(res.val) = Upper(arg)
    /\ (DecodedPairString /\ res.status = "ok")
          => str(res.val.pair) = Upper(res.val.pair)

----------------------------------------------------------------------------

\* Every field but "pair" is present and a number
OtherFieldsDecodable ==
    /\ DOMAIN arg = RequiredKeys[fn]
    /\ DOMAIN arg.limit = LimitKeys
    /\ NoNull(arg)

\* C4: an ExchangeInfo or MarketInfo whose "pair" string has no "_" decodes
\* without failure, to the default-constructed pair ("", "").
C4_NoDelimiterDefaultPair ==
    (DecodedPairString /\ pc = "done" /\ ~HasDelimiter(arg.pair.s))
        => /\ res.status = "ok" => res.val.pair = [first |-> <<>>, second |-> <<>>]
           /\ OtherFieldsDecodable => res.status = "ok"

C4_Witness ==
    /\ DecodedPairString
    /\ pc = "done"
    /\ fn = "from_json_market_info"
    /\ arg.pair.s = <<"B", "a", "B">>
    /\ res.status = "ok"

\* C5: a "pair" string with a "_" is split at the last "_", both halves
\* upper-cased, by both decoders alike.
C5_SplitAtLastDelimiter ==
    (DecodedPairString /\ HasDelimiter(arg.pair.s) /\ res.status = "ok")
        => \E i \in 1..Len(arg.pair.s) :
              /\ arg.pair.s[i] = "_"
              /\ ~HasDelimiter(SubSeq(arg.pair.s, i + 1, Len(arg.pair.s)))
              /\ res.val.pair.first = toupper(SubSeq(arg.pair.s, 1, i - 1))
              /\ res.val.pair.second = toupper(SubSeq(arg.pair.s, i + 1, Len(arg.pair.s)))

C5_Witness ==
    /\ DecodedPairString
    /\ fn = "from_json_exchange_info"
    /\ arg.pair.s = <<"a", "_", "B", "_", "a">>
    /\ res.status = "ok"
    /\ res.val.pair.first = <<"A", "_", "B">>

\* C6: for b and q without "_", decoding the display string of
\* currency_pair_t(b, q) gives back the base and quote of that pair.
C6_RoundTripNoDelimiter ==
    (pc = "redone" /\ fn \in PairDecoders
     /\ ~HasDelimiter(prev.first) /\ ~HasDelimiter(prev.second))
        => /\ res.status = "ok"
           /\ res.val.pair = currency_pair_t(prev.first, prev.second)

C6_Witness ==
    /\ pc = "redone"
    /\ fn = "from_json_exchange_info"
    /\ prev.first = <<"a", "B">>
    /\ prev.second = <<>>
    /\ res.status = "ok"

----------------------------------------------------------------------------

\* Two JSON numbers denote the same number
SameNumber(a, b) == a.hi = b.hi /\ a.lo = b.lo /\ a.half = b.half

SameDepositInfoDoc(a, b) ==
    /\ DOMAIN a = DOMAIN b
    /\ DOMAIN a.limit = DOMAIN b.limit
    /\ SameNumber(a.limit.min, b.limit.min)
    /\ SameNumber(a.limit.max, b.limit.max)
    /\ SameNumber(a.fee, b.fee)
    /\ a.currency = b.currency
    /\ a.method = b.method

\* A double holds the number exactly
Representable(n) == n.kind = "float" \/ n.hi = 0 \/ n.lo % 2 = 0

\* The well-formed document was decoded and the result encoded again
ReencodedDepositInfo ==
    /\ pc = "redone"
    /\ fn = "to_json_deposit_info"
    /\ prev \in WellFormedDepositInfoDocs

\* C7 as stated: encode(decode(doc)) = doc for every well-formed
\* DepositInfo document.
C7_RoundTripAll ==
    /\ (pc = "done" /\ fn = "from_json_deposit_info" /\ arg \in WellFormedDepositInfoDocs)
          => res.status = "ok"
    /\ ReencodedDepositInfo
          => (res.status = "ok" /\ SameDepositInfoDoc(res.val, prev))

\* C7 amended: encode(decode(doc)) = doc for every well-formed DepositInfo
\* document whose three numbers are exactly representable as doubles.
C7_RoundTripRepresentable ==
    /\ (pc = "done" /\ fn = "from_json_deposit_info" /\ arg \in WellFormedDepositInfoDocs)
          => res.status = "ok"
    /\ (ReencodedDepositInfo
        /\ Representable(prev.limit.min) /\ Representable(prev.limit.max)
        /\ Representable(prev.fee))
          => (res.status = "ok" /\ SameDepositInfoDoc(res.val, prev))

C7_Witness ==
    /\ ReencodedDepositInfo
    /\ prev.limit.min = [kind |-> "int", hi |-> 0, lo |-> 1, half |-> 0]
    /\ prev.limit.max = [kind |-> "int", hi |-> 1, lo |-> 2, half |-> 0]
    /\ prev.fee = [kind |-> "float", hi |-> 0, lo |-> 0, half |-> 1]
    /\ res.status = "ok"

----------------------------------------------------------------------------

\* C8: every to_json returns a document and never fails.
C8_EncodingTotal ==
    (Done /\ fn \in Encoders) => res.status = "ok"

\* The same for every to_json but that of hash_t
C8_EncodingTotalButHash ==
    (Done /\ fn \in Encoders \ {"to_json_hash"}) => res.status = "ok"

\* C9: numeric_string returns a string field unchanged, "0.0" for null, and
\* fails for a field of any other kind.
C9_NumericString ==
    (pc = "done" /\ fn = "numeric_string")
        => /\ arg.kind = "string" => (res.status = "ok" /\ res.s = arg.s)
           /\ arg.kind = "null" => (res.status = "ok" /\ res.s = <<"0", ".", "0">>)
           /\ arg.kind \notin {"string", "null"} => res.status = "runtime_error"

C9_Witness ==
    /\ pc = "done"
    /\ fn = "numeric_string"
    /\ arg.kind = "number"
    /\ res.status = "runtime_error"

\* C10: for a "pair" string s with a "_", the display string of the decoded
\* pair is uppercase(s), and so is the "pair" field of encode(decode(doc)).
C10_DisplayOfDecodedIsUpper ==
    /\ (DecodedPairString /\ HasDelimiter(arg.pair.s) /\ res.status = "ok")
          => str(res.val.pair) = toupper(arg.pair.s)
    /\ (pc = "redone" /\ fn \in {"to_json_exchange_info", "to_json_market_info"}
        /\ HasDelimiter(prev.pair.s))
          => (res.status = "ok" /\ res.val.pair = json_string(toupper(prev.pair.s)))

C10_Witness ==
    /\ pc = "redone"
    /\ fn = "to_json_market_info"
    /\ prev.pair.s = <<"a", "_", "a", "_", "B">>
    /\ arg.pair.first = <<"A", "_", "A">>
    /\ res.status = "ok"

====
